---- MODULE Spec2Model ----
(***************************************************************************)
(* The mission / traffic state machine of the App component: the React     *)
(* state of App, its event handlers, and the two asynchronous callbacks    *)
(* it schedules (the continuation of startMission after the analysis call  *)
(* and the 1000 ms reset timer of handleArrival).                          *)
(*                                                                         *)
(* Coordinates are in millidegrees.  A log entry is its message and type;  *)
(* the random id and the wall-clock timestamp are left out.                *)
(***************************************************************************)
EXTENDS Integers, Sequences, FiniteSets

(* ------------------------------ bounds -------------------------------- *)

\* Most missions started in one run of the application: startMission is not
\* taken once the log holds this many "Mission parameters uploaded" entries.
MaxMissions == 2

\* Most entries of the log that come from the signal and route handlers,
\* which can repeat without end at any point of a mission.
MaxAmbientLogs == 1

\* Most entries of the log that come from the location handlers of the
\* dashboard, which can be used without end before a mission.
MaxLocationLogs == 2

(* ------------------------------ types.ts ------------------------------ *)

AppView == {"LOGIN", "DASHBOARD", "MAP_NAVIGATION"}

MissionStatus ==
    {"IDLE", "CALCULATING", "ENROUTE_PATIENT", "AT_PATIENT", "ENROUTE_HOSPITAL", "COMPLETED"}

TrafficLightState == {"RED", "YELLOW", "GREEN", "GREEN_CORRIDOR_ACTIVE"}

\* Coordinate | null: the empty sequence is null, <<c>> is the coordinate c.
NULL == <<>>

Some(c) == <<c>>

Value(o) == o[1]

(* ----------------------------- constants ------------------------------ *)

BASE_LAT == 40785

BASE_LNG == -73968

HOSPITAL_LOC == [lat |-> 40789, lng |-> -73955]

\* (Math.random() - 0.5) * 0.02 lies in [-0.010, 0.010): its two extremes.
RandomOffsets == {-10, 9}

\* Math.floor(Math.random() * 20) lies in 0..19: its two extremes.
Jitter == {0, 19}

\* The summaries the routing control reports: totalDistance in metres,
\* totalTime in seconds.
RouteSummaries == {[totalDistance |-> 1540, totalTime |-> 125]}

\* The running distances the map reports, in metres.
RunningMeters == {1234}

EmergencyTypes == {"Cardiac Arrest", "Stroke"}

\* The texts typed into the two coordinate inputs, character by character
\* (none with an exponent or the word Infinity).
ManualInputs == {<<"a", "b", "c">>, <<"4", "1", ".", "5", "x">>}

\* The positions the device reports.
GeoPositions == {[lat |-> 40700, lng |-> -74000]}

\* How a call of the analysis provider can end.
AnalysisOutcomes == {"resolved", "rejected"}

(* ------------------------------ helpers ------------------------------- *)

Digit == <<"0", "1", "2", "3", "4", "5", "6", "7", "8", "9">>

Last(seq) == seq[Len(seq)]

RECURSIVE NatToString(_)
NatToString(n) ==
    IF n < 10 THEN Digit[n + 1] ELSE NatToString(n \div 10) \o Digit[(n % 10) + 1]

\* (meters / 1000).toFixed(1) for meters >= 0
DistKm(meters) ==
    LET tenths == (meters + 50) \div 100
    IN  NatToString(tenths \div 10) \o "." \o Digit[(tenths % 10) + 1]

\* (meters / 1000).toFixed(2) for meters >= 0
RunningKm(meters) ==
    LET hundredths == (meters + 5) \div 10
    IN  NatToString(hundredths \div 100) \o "." \o Digit[((hundredths \div 10) % 10) + 1]
            \o Digit[(hundredths % 10) + 1]

\* Math.round(totalTime / 60) for totalTime >= 0
TimeMin(totalTime) == (totalTime + 30) \div 60

Log(message, type) == [message |-> message, type |-> type]

(* ------------------------ numbers and their texts ---------------------- *)

\* NaN | number: the empty sequence is NaN, <<n>> is the number n, in
\* thousandths.
NaN == <<>>

isNaN(x) == x = NaN

DigitChars == {Digit[i] : i \in 1..10}

DigitValue(c) == (CHOOSE i \in 1..10 : Digit[i] = c) - 1

RECURSIVE SkipWhiteSpace(_)
SkipWhiteSpace(text) ==
    IF text # <<>> /\ Head(text) = " " THEN SkipWhiteSpace(Tail(text)) ELSE text

\* The longest prefix of text made of decimal digits.
RECURSIVE DigitPrefix(_)
DigitPrefix(text) ==
    IF text # <<>> /\ Head(text) \in DigitChars
    THEN <<Head(text)>> \o DigitPrefix(Tail(text))
    ELSE <<>>

RECURSIVE DigitsToNat(_)
DigitsToNat(digits) ==
    IF digits = <<>>
    THEN 0
    ELSE 10 * DigitsToNat(SubSeq(digits, 1, Len(digits) - 1)) + DigitValue(Last(digits))

\* The first three fraction digits as thousandths.
Thousandths(digits) ==
    DigitsToNat(SubSeq(digits \o <<"0", "0", "0">>, 1, 3))

\* parseFloat: leading white space is skipped, then the longest prefix
\* [+-] digits [. digits] is read and the rest of the text is ignored; NaN
\* when that prefix holds no digit.
parseFloat(text) ==
    LET t0 == SkipWhiteSpace(text)
        signed == t0 # <<>> /\ Head(t0) \in {"+", "-"}
        negative == t0 # <<>> /\ Head(t0) = "-"
        t1 == IF signed THEN Tail(t0) ELSE t0
        int == DigitPrefix(t1)
        t2 == SubSeq(t1, Len(int) + 1, Len(t1))
        frac == IF t2 # <<>> /\ Head(t2) = "." THEN DigitPrefix(Tail(t2)) ELSE <<>>
        magnitude == 1000 * DigitsToNat(int) + Thousandths(frac)
    IN  IF int = <<>> /\ frac = <<>>
        THEN NaN
        ELSE <<IF negative THEN -magnitude ELSE magnitude>>

RECURSIVE NatToText(_)
NatToText(n) ==
    IF n < 10 THEN <<Digit[n + 1]>> ELSE NatToText(n \div 10) \o <<Digit[(n % 10) + 1]>>

RECURSIVE DropTrailingZeros(_)
DropTrailingZeros(digits) ==
    IF digits # <<>> /\ Last(digits) = "0"
    THEN DropTrailingZeros(SubSeq(digits, 1, Len(digits) - 1))
    ELSE digits

\* Number.prototype.toString of a number given in thousandths.
NumberToText(n) ==
    LET magnitude == IF n < 0 THEN -n ELSE n
        frac == DropTrailingZeros(<<Digit[((magnitude \div 100) % 10) + 1],
                                    Digit[((magnitude \div 10) % 10) + 1],
                                    Digit[(magnitude % 10) + 1]>>)
    IN  (IF n < 0 THEN <<"-">> ELSE <<>>)
          \o NatToText(magnitude \div 1000)
          \o (IF frac = <<>> THEN <<>> ELSE <<".">> \o frac)

VARIABLES
    view, status, ambulancePos, targetPos, emergency, logs,
    speed, distance, eta, trafficState, showTransModal,
    pendingAnalysis,   \* analysis calls in flight, each with a waiting startMission
    resetTimers,       \* reset timers in flight: the targetPos each closure captured
    manualLat, manualLng,   \* the two text inputs, as sequences of characters
    pendingGeo         \* getCurrentPosition requests in flight

\* The state only the location handlers of the dashboard write.
locationVars == <<manualLat, manualLng, pendingGeo>>

vars ==
    <<view, status, ambulancePos, targetPos, emergency, logs,
      speed, distance, eta, trafficState, showTransModal,
      pendingAnalysis, resetTimers, manualLat, manualLng, pendingGeo>>

(* ------------------------------- logs --------------------------------- *)

AmbientMessages ==
    {"Intersection Alert: RED Signal Detected. Braking...",
     "Override Engaged: Green Wave Active. Accelerating.",
     "Route Calculated."}

AmbientCount == Cardinality({i \in 1..Len(logs) : logs[i].message \in AmbientMessages})

MissionCount ==
    Cardinality({i \in 1..Len(logs) :
                    logs[i].message = "Mission parameters uploaded. Analyzing route..."})

CanStartMission == MissionCount < MaxMissions

CanLogAmbient == AmbientCount < MaxAmbientLogs

\* A log that puts the newest entry first.
addLog_Prepends(prev, message, type) == <<Log(message, type)>> \o prev

addLog(prev, message, type) == Append(prev, Log(message, type))

(* ------------------------------- Init --------------------------------- *)

Init ==
    /\ view = "LOGIN"
    /\ status = "IDLE"
    /\ ambulancePos = [lat |-> BASE_LAT, lng |-> BASE_LNG]
    /\ targetPos = NULL
    /\ emergency = [type |-> "Cardiac Arrest", severity |-> "Critical"]
    /\ logs = <<>>
    /\ speed = 0
    /\ distance = "0.0 km"
    /\ eta = "--:--"
    /\ trafficState = "RED"
    /\ showTransModal = FALSE
    /\ pendingAnalysis = 0
    /\ resetTimers = <<>>
    /\ manualLat = NumberToText(BASE_LAT)
    /\ manualLng = NumberToText(BASE_LNG)
    /\ pendingGeo = 0

(* ------------------------------ handlers ------------------------------ *)

\* Each handler runs as one event against the state of the current render:
\* every setter call of one handler is applied in one step.  The map
\* callbacks are delivered one at a time while MapComponent is mounted, that
\* is while the map view is shown, in any mission status.

handleLogin ==
    /\ UNCHANGED locationVars
    /\ view = "LOGIN"
    /\ logs' = addLog(logs, "System initialized. User authenticated.", "success")
    /\ view' = "DASHBOARD"
    /\ UNCHANGED <<status, ambulancePos, targetPos, emergency, speed, distance, eta,
                   trafficState, showTransModal, pendingAnalysis, resetTimers>>

\* The synchronous part of startMission, up to the await.
startMission ==
    /\ UNCHANGED locationVars
    /\ view = "DASHBOARD"
    /\ CanStartMission
    /\ view' = "MAP_NAVIGATION"
    /\ status' = "CALCULATING"
    /\ logs' = addLog(logs, "Mission parameters uploaded. Analyzing route...", "info")
    /\ \E dLat \in RandomOffsets, dLng \in RandomOffsets :
          targetPos' = Some([lat |-> ambulancePos.lat + dLat,
                             lng |-> ambulancePos.lng + dLng])
    /\ pendingAnalysis' = pendingAnalysis + 1
    /\ UNCHANGED <<ambulancePos, emergency, speed, distance, eta, trafficState,
                   showTransModal, resetTimers>>

\* A continuation that changes the status but does not preempt the signals.
startMissionResumes_NoCorridor ==
    /\ UNCHANGED locationVars
    /\ pendingAnalysis > 0
    /\ pendingAnalysis' = pendingAnalysis - 1
    /\ logs' = addLog(addLog(logs, "aiAnalysis", "analysis"),
                      "GREEN CORRIDOR PROTOCOL: ACTIVE. All signals preempted.", "success")
    /\ status' = "ENROUTE_PATIENT"
    /\ UNCHANGED <<view, ambulancePos, targetPos, emergency, speed, distance, eta,
                   trafficState, showTransModal, resetTimers>>

\* The rest of startMission, run when the analysis promise resolves.
startMissionResumes ==
    /\ UNCHANGED locationVars
    /\ pendingAnalysis > 0
    /\ pendingAnalysis' = pendingAnalysis - 1
    /\ logs' = addLog(addLog(logs, "aiAnalysis", "analysis"),
                      "GREEN CORRIDOR PROTOCOL: ACTIVE. All signals preempted.", "success")
    /\ status' = "ENROUTE_PATIENT"
    /\ trafficState' = "GREEN_CORRIDOR_ACTIVE"
    /\ UNCHANGED <<view, ambulancePos, targetPos, emergency, speed, distance, eta,
                   showTransModal, resetTimers>>

\* The analysis promise rejects: the await throws, the rest of startMission
\* is skipped and nothing catches the rejection.
startMissionRejected ==
    /\ UNCHANGED locationVars
    /\ pendingAnalysis > 0
    /\ "rejected" \in AnalysisOutcomes
    /\ pendingAnalysis' = pendingAnalysis - 1
    /\ UNCHANGED <<view, status, ambulancePos, targetPos, emergency, logs, speed,
                   distance, eta, trafficState, showTransModal, resetTimers>>

\* select onChange on the dashboard
setEmergencyType ==
    /\ UNCHANGED locationVars
    /\ view = "DASHBOARD"
    /\ \E t \in EmergencyTypes : emergency' = [emergency EXCEPT !.type = t]
    /\ UNCHANGED <<view, status, ambulancePos, targetPos, logs, speed, distance, eta,
                   trafficState, showTransModal, pendingAnalysis, resetTimers>>

handleRouteFound ==
    /\ UNCHANGED locationVars
    /\ view = "MAP_NAVIGATION"
    /\ CanLogAmbient
    /\ \E summary \in RouteSummaries :
          /\ distance' = DistKm(summary.totalDistance) \o " km"
          /\ eta' = NatToString(TimeMin(summary.totalTime)) \o " min"
    /\ logs' = addLog(logs, "Route Calculated.", "info")
    /\ UNCHANGED <<view, status, ambulancePos, targetPos, emergency, speed,
                   trafficState, showTransModal, pendingAnalysis, resetTimers>>

\* A position tick with one base speed for both legs.
PositionSpeed_FlatBase(traffic, st, jitter) ==
    IF traffic = "RED" THEN 0 ELSE 50 + jitter

PositionSpeed(traffic, st, jitter) ==
    IF traffic = "RED"
    THEN 0
    ELSE (IF st = "ENROUTE_HOSPITAL" THEN 80 ELSE 50) + jitter

handlePositionUpdate ==
    /\ UNCHANGED locationVars
    /\ view = "MAP_NAVIGATION"
    /\ \E j \in Jitter : speed' = PositionSpeed(trafficState, status, j)
    /\ UNCHANGED <<view, status, ambulancePos, targetPos, emergency, logs, distance, eta,
                   trafficState, showTransModal, pendingAnalysis, resetTimers>>

handleDistanceUpdate ==
    /\ UNCHANGED locationVars
    /\ view = "MAP_NAVIGATION"
    /\ \E meters \in RunningMeters : distance' = RunningKm(meters) \o " km"
    /\ UNCHANGED <<view, status, ambulancePos, targetPos, emergency, logs, speed, eta,
                   trafficState, showTransModal, pendingAnalysis, resetTimers>>

\* A signal handler that forgets to brake on RED.
SignalSpeed_NoBrake(newState, prevSpeed) == prevSpeed

\* The speed handleTrafficSignalUpdate leaves behind.
SignalSpeed(newState, prevSpeed) == IF newState = "RED" THEN 0 ELSE prevSpeed

\* A signal handler that announces the override on every corridor event,
\* not only on the edge from RED or YELLOW.
SignalLogs_EveryCorridorEvent(newState, prevState) ==
    IF newState = "RED"
    THEN <<Log("Intersection Alert: RED Signal Detected. Braking...", "warning")>>
    ELSE IF newState = "GREEN_CORRIDOR_ACTIVE"
         THEN <<Log("Override Engaged: Green Wave Active. Accelerating.", "success")>>
         ELSE <<>>

\* The log entries handleTrafficSignalUpdate appends.
SignalLogs(newState, prevState) ==
    IF newState = "RED"
    THEN <<Log("Intersection Alert: RED Signal Detected. Braking...", "warning")>>
    ELSE IF newState = "GREEN_CORRIDOR_ACTIVE" /\ prevState \in {"RED", "YELLOW"}
         THEN <<Log("Override Engaged: Green Wave Active. Accelerating.", "success")>>
         ELSE <<>>

\* A signal handler that keeps an active corridor against the simulator's
\* Yellow and Green events.
handleTrafficSignalUpdate_CorridorHolds ==
    /\ UNCHANGED locationVars
    /\ view = "MAP_NAVIGATION"
    /\ \E newState \in TrafficLightState :
          /\ SignalLogs(newState, trafficState) # <<>> => CanLogAmbient
          /\ trafficState' = IF trafficState = "GREEN_CORRIDOR_ACTIVE"
                                  /\ newState \in {"YELLOW", "GREEN"}
                              THEN trafficState
                              ELSE newState
          /\ speed' = SignalSpeed(newState, speed)
          /\ logs' = logs \o SignalLogs(newState, trafficState)
    /\ UNCHANGED <<view, status, ambulancePos, targetPos, emergency, distance, eta,
                   showTransModal, pendingAnalysis, resetTimers>>

handleTrafficSignalUpdate ==
    /\ UNCHANGED locationVars
    /\ view = "MAP_NAVIGATION"
    /\ \E newState \in TrafficLightState :
          /\ SignalLogs(newState, trafficState) # <<>> => CanLogAmbient
          /\ trafficState' = newState
          /\ speed' = SignalSpeed(newState, speed)
          /\ logs' = logs \o SignalLogs(newState, trafficState)
    /\ UNCHANGED <<view, status, ambulancePos, targetPos, emergency, distance, eta,
                   showTransModal, pendingAnalysis, resetTimers>>

\* An arrival handler without the status guard on the patient leg: it fires
\* again while the ambulance lingers at the patient.
handleArrival_Retriggers ==
    /\ UNCHANGED locationVars
    /\ view = "MAP_NAVIGATION"
    /\ status \in {"ENROUTE_PATIENT", "AT_PATIENT"}
    /\ status' = "AT_PATIENT"
    /\ speed' = 0
    /\ trafficState' = "YELLOW"
    /\ logs' = addLog(logs, "Arrived at patient location. Medical team deploying.", "info")
    /\ showTransModal' = TRUE
    /\ UNCHANGED <<view, ambulancePos, targetPos, emergency, distance, eta, pendingAnalysis,
                   resetTimers>>

handleArrival ==
    /\ UNCHANGED locationVars
    /\ view = "MAP_NAVIGATION"
    /\ IF status = "ENROUTE_PATIENT"
       THEN /\ status' = "AT_PATIENT"
            /\ speed' = 0
            /\ trafficState' = "YELLOW"
            /\ logs' = addLog(logs, "Arrived at patient location. Medical team deploying.",
                              "info")
            /\ showTransModal' = TRUE
            /\ UNCHANGED resetTimers
       ELSE IF status = "ENROUTE_HOSPITAL"
       THEN /\ status' = "COMPLETED"
            /\ speed' = 0
            /\ trafficState' = "GREEN"
            /\ logs' = addLog(logs, "Arrived at Hospital. Patient transfer initiated.",
                              "success")
            /\ resetTimers' = Append(resetTimers, targetPos)
            /\ UNCHANGED showTransModal
       ELSE UNCHANGED <<status, speed, trafficState, logs, showTransModal, resetTimers>>
    /\ UNCHANGED <<view, ambulancePos, targetPos, emergency, distance, eta, pendingAnalysis>>

\* A reset callback that leaves the target in place.
resetTimerFires_KeepsTarget ==
    /\ UNCHANGED locationVars
    /\ resetTimers # <<>>
    /\ view' = "DASHBOARD"
    /\ status' = "IDLE"
    /\ distance' = "0.0 km"
    /\ eta' = "--:--"
    /\ resetTimers' = Tail(resetTimers)
    /\ UNCHANGED <<ambulancePos, targetPos, emergency, logs, speed, trafficState,
                   showTransModal, pendingAnalysis>>

\* The setTimeout callback of handleArrival; timers of equal delay fire in
\* the order they were set.  captured is the targetPos of the render that
\* called handleArrival.
resetTimerFires ==
    /\ UNCHANGED locationVars
    /\ resetTimers # <<>>
    /\ LET captured == Head(resetTimers)
       IN  /\ view' = "DASHBOARD"
           /\ status' = "IDLE"
           /\ targetPos' = NULL
           /\ distance' = "0.0 km"
           /\ eta' = "--:--"
           /\ ambulancePos' = IF captured # NULL THEN Value(captured) ELSE ambulancePos
    /\ resetTimers' = Tail(resetTimers)
    /\ UNCHANGED <<emergency, logs, speed, trafficState, showTransModal, pendingAnalysis>>

\* A transport handler that keeps the old route origin.
TransportOrigin_KeepsOrigin(target, ambulance) == ambulance

\* The position handleTransportToHospital makes the new route origin.
TransportOrigin(target, ambulance) ==
    IF target # NULL THEN Value(target) ELSE ambulance

\* BEGIN TRANSPORT, rendered while the modal is shown in the map view.
handleTransportToHospital ==
    /\ UNCHANGED locationVars
    /\ view = "MAP_NAVIGATION"
    /\ showTransModal
    /\ showTransModal' = FALSE
    /\ ambulancePos' = TransportOrigin(targetPos, ambulancePos)
    /\ targetPos' = Some(HOSPITAL_LOC)
    /\ status' = "ENROUTE_HOSPITAL"
    /\ trafficState' = "GREEN"
    /\ logs' = addLog(addLog(logs, "Patient secured. Rerouting to Trauma Center.", "warning"),
                      "High Speed Protocol Engaged. Signals Syncing...", "success")
    /\ UNCHANGED <<view, emergency, speed, distance, eta, pendingAnalysis, resetTimers>>

\* Abort Mission onClick
abortMission ==
    /\ UNCHANGED locationVars
    /\ view = "MAP_NAVIGATION"
    /\ view' = "DASHBOARD"
    /\ status' = "IDLE"
    /\ UNCHANGED <<ambulancePos, targetPos, emergency, logs, speed, distance, eta,
                   trafficState, showTransModal, pendingAnalysis, resetTimers>>

(* ------------------------- location handlers --------------------------- *)

LocationMessages ==
    {"Manual coordinates set", "Invalid coordinates entered.",
     "Initiating satellite triangulation...", "Location locked",
     "GPS Signal weak. Defaulting to Base Station.", "Geolocation module offline."}

LocationCount == Cardinality({i \in 1..Len(logs) : logs[i].message \in LocationMessages})

CanLogLocation == LocationCount < MaxLocationLogs

\* The Lat input's onChange
setManualLat ==
    /\ view = "DASHBOARD"
    /\ \E text \in ManualInputs : manualLat' = text
    /\ UNCHANGED <<view, status, ambulancePos, targetPos, emergency, logs, speed, distance,
                   eta, trafficState, showTransModal, pendingAnalysis, resetTimers,
                   manualLng, pendingGeo>>

\* The Lng input's onChange
setManualLng ==
    /\ view = "DASHBOARD"
    /\ \E text \in ManualInputs : manualLng' = text
    /\ UNCHANGED <<view, status, ambulancePos, targetPos, emergency, logs, speed, distance,
                   eta, trafficState, showTransModal, pendingAnalysis, resetTimers,
                   manualLat, pendingGeo>>

handleManualLocation ==
    /\ view = "DASHBOARD"
    /\ CanLogLocation
    /\ LET lat == parseFloat(manualLat)
           lng == parseFloat(manualLng)
       IN  IF ~isNaN(lat) /\ ~isNaN(lng)
           THEN /\ ambulancePos' = [lat |-> Value(lat), lng |-> Value(lng)]
                /\ logs' = addLog(logs, "Manual coordinates set", "warning")
           ELSE /\ logs' = addLog(logs, "Invalid coordinates entered.", "warning")
                /\ UNCHANGED ambulancePos
    /\ UNCHANGED <<view, status, targetPos, emergency, speed, distance, eta, trafficState,
                   showTransModal, pendingAnalysis, resetTimers, locationVars>>

\* available: whether the browser has navigator.geolocation.
handleAutoLocation ==
    /\ view = "DASHBOARD"
    /\ CanLogLocation
    /\ \E available \in BOOLEAN :
          IF available
          THEN /\ logs' = addLog(logs, "Initiating satellite triangulation...", "info")
               /\ pendingGeo' = pendingGeo + 1
          ELSE /\ logs' = addLog(addLog(logs, "Initiating satellite triangulation...", "info"),
                                 "Geolocation module offline.", "warning")
               /\ UNCHANGED pendingGeo
    /\ UNCHANGED <<view, status, ambulancePos, targetPos, emergency, speed, distance, eta,
                   trafficState, showTransModal, pendingAnalysis, resetTimers,
                   manualLat, manualLng>>

\* The success callback of getCurrentPosition.
geolocationSucceeds ==
    /\ pendingGeo > 0
    /\ CanLogLocation
    /\ pendingGeo' = pendingGeo - 1
    /\ \E newPos \in GeoPositions :
          /\ ambulancePos' = newPos
          /\ manualLat' = NumberToText(newPos.lat)
          /\ manualLng' = NumberToText(newPos.lng)
    /\ logs' = addLog(logs, "Location locked", "success")
    /\ UNCHANGED <<view, status, targetPos, emergency, speed, distance, eta, trafficState,
                   showTransModal, pendingAnalysis, resetTimers>>

\* The error callback of getCurrentPosition.
geolocationFails ==
    /\ pendingGeo > 0
    /\ CanLogLocation
    /\ pendingGeo' = pendingGeo - 1
    /\ logs' = addLog(logs, "GPS Signal weak. Defaulting to Base Station.", "warning")
    /\ UNCHANGED <<view, status, ambulancePos, targetPos, emergency, speed, distance, eta,
                   trafficState, showTransModal, pendingAnalysis, resetTimers,
                   manualLat, manualLng>>

Next ==
    \/ handleLogin
    \/ setEmergencyType
    \/ startMission
    \/ startMissionResumes
    \/ startMissionRejected
    \/ handleRouteFound
    \/ handlePositionUpdate
    \/ handleDistanceUpdate
    \/ handleTrafficSignalUpdate
    \/ handleArrival
    \/ resetTimerFires
    \/ handleTransportToHospital
    \/ abortMission

Spec == Init /\ [][Next]_vars

\* The browser runs every timer that was set: the reset callback of a
\* completed mission is not postponed for ever.
LiveSpec == Init /\ [][Next]_vars /\ WF_vars(resetTimerFires)

\* The operator's side of the application: every handler and callback but
\* the four read-outs of the map (route, position, distance, signal).
OperatorNext ==
    \/ handleLogin
    \/ setEmergencyType
    \/ setManualLat
    \/ setManualLng
    \/ handleManualLocation
    \/ handleAutoLocation
    \/ geolocationSucceeds
    \/ geolocationFails
    \/ startMission
    \/ startMissionResumes
    \/ startMissionRejected
    \/ handleArrival
    \/ resetTimerFires
    \/ handleTransportToHospital
    \/ abortMission

OperatorSpec == Init /\ [][OperatorNext]_vars

(* ------------------------- steps, seen in the state -------------------- *)

Count(message) == Cardinality({i \in 1..Len(logs) : logs[i].message = message})

\* The one step that clears the confirmation is BEGIN TRANSPORT.
TransportStep == showTransModal /\ ~showTransModal'

\* A reset timer leaves the queue.
ResetStep == Len(resetTimers') < Len(resetTimers)

\* An analysis call ends (its promise resolves or rejects).
AnalysisEnds == pendingAnalysis' < pendingAnalysis

\* The one step that leaves the map view and is not the reset timer.
AbortStep == view = "MAP_NAVIGATION" /\ view' = "DASHBOARD" /\ ~ResetStep

MissionRunning == {"CALCULATING", "ENROUTE_PATIENT", "AT_PATIENT", "ENROUTE_HOSPITAL"}

(* ------------------------------- claims -------------------------------- *)

\* C1: targetPos is non-null whenever status is Calculating, EnroutePatient,
\* AtPatient or EnrouteHospital.
C1_TargetSetWhileRunning == status \in MissionRunning => targetPos # NULL

\* C2: speed is 0 whenever trafficState is RED, in every reachable state.
C2_RedMeansStopped == trafficState = "RED" => speed = 0

\* C2 witness: a RED signal on the hospital leg (begin-transport set GREEN,
\* so a RED event has been handled since).
C2_Witness == trafficState = "RED" /\ status = "ENROUTE_HOSPITAL" /\ speed = 0

\* C3: a callback of an aborted or reset mission is discarded, so the status
\* leaves Idle only by a start-mission intent (to Calculating).
C3_IdleUntilNextStart == [][status = "IDLE" /\ status' # "IDLE" => status' = "CALCULATING"]_vars

C5_CompletedResets ==
    /\ (status = "COMPLETED") ~> (status = "IDLE")
    /\ [][ResetStep => /\ status' = "IDLE"
                       /\ targetPos' = NULL
                       /\ distance' = "0.0 km"
                       /\ eta' = "--:--"]_vars

\* C5 witness: Idle again after the hospital arrival, every timer run.
C5_Witness ==
    /\ status = "IDLE"
    /\ resetTimers = <<>>
    /\ Count("Arrived at Hospital. Patient transfer initiated.") = 1
    /\ targetPos = NULL
    /\ ambulancePos = HOSPITAL_LOC

\* C6: start-mission sets Calculating and a target in one step, and the
\* status after Calculating is EnroutePatient unless the operator aborts.
C6_CalculatingThenEnroute ==
    [][/\ status = "IDLE" /\ status' = "CALCULATING" => targetPos' # NULL
       /\ status = "CALCULATING" /\ status' # "CALCULATING"
            => status' = "ENROUTE_PATIENT" \/ (AbortStep /\ status' = "IDLE")]_vars

C8_FailureDoesNotHalt ==
    [][AnalysisEnds /\ status = "CALCULATING"
         => /\ Len(logs') > Len(logs)
            /\ status' = "ENROUTE_PATIENT"
            /\ trafficState' = "GREEN_CORRIDOR_ACTIVE"]_vars

\* C9: begin-transport moves ambulancePos to the target it had, targets the
\* hospital, sets EnrouteHospital and GREEN, and appends the reroute warning
\* and then the high-speed success entry.
C9_TransportReroutes ==
    [][TransportStep
         => /\ targetPos # NULL
            /\ ambulancePos' = Value(targetPos)
            /\ targetPos' = Some(HOSPITAL_LOC)
            /\ status' = "ENROUTE_HOSPITAL"
            /\ trafficState' = "GREEN"
            /\ logs' = logs \o
                 <<Log("Patient secured. Rerouting to Trauma Center.", "warning"),
                   Log("High Speed Protocol Engaged. Signals Syncing...", "success")>>]_vars

\* C9 witness: on the hospital leg, starting from where the patient was.
C9_Witness ==
    /\ status = "ENROUTE_HOSPITAL"
    /\ targetPos = Some(HOSPITAL_LOC)
    /\ ambulancePos # [lat |-> BASE_LAT, lng |-> BASE_LNG]
    /\ ~showTransModal
    /\ Last(logs).message = "High Speed Protocol Engaged. Signals Syncing..."

\* C10: abort sets Idle and clears the transient fields (target, speed,
\* distance, ETA, pending confirmation); emergency and logs stay.
C10_AbortClears ==
    [][AbortStep => /\ status' = "IDLE"
                    /\ targetPos' = NULL
                    /\ speed' = 0
                    /\ distance' = "0.0 km"
                    /\ eta' = "--:--"
                    /\ ~showTransModal'
                    /\ emergency' = emergency
                    /\ logs' = logs]_vars

\* The two entries of the signal handler, as the claims name them.
BrakingLog == Log("Intersection Alert: RED Signal Detected. Braking...", "warning")

OverrideLog == Log("Override Engaged: Green Wave Active. Accelerating.", "success")

\* C11: in every state whose status is not Idle the abort intent can be
\* taken, and it yields Idle.
C11_AbortAlwaysAvailable == status # "IDLE" => ENABLED (abortMission /\ status' = "IDLE")

\* C12: a RED event always appends the braking warning (and stops); a
\* GREEN_CORRIDOR_ACTIVE event appends the override entry exactly when the
\* stored state was RED or YELLOW, and nothing when it was GREEN or already
\* GREEN_CORRIDOR_ACTIVE; YELLOW and GREEN events append nothing; every one of
\* the four states can be stored by an event; and the two entries enter the
\* log in no other step.
C12_OverrideOnEdgeOnly ==
    /\ [](/\ ~ENABLED (handleTrafficSignalUpdate /\ trafficState' = "RED"
                         /\ logs' # Append(logs, BrakingLog))
          /\ trafficState \in {"RED", "YELLOW"}
               => ~ENABLED (handleTrafficSignalUpdate
                              /\ trafficState' = "GREEN_CORRIDOR_ACTIVE"
                              /\ logs' # Append(logs, OverrideLog))
          /\ trafficState \in {"GREEN", "GREEN_CORRIDOR_ACTIVE"}
               => ~ENABLED (handleTrafficSignalUpdate
                              /\ trafficState' = "GREEN_CORRIDOR_ACTIVE"
                              /\ logs' # logs)
          /\ ~ENABLED (handleTrafficSignalUpdate /\ trafficState' \in {"YELLOW", "GREEN"}
                         /\ logs' # logs)
          /\ view = "MAP_NAVIGATION" /\ CanLogAmbient
               => \A s \in TrafficLightState :
                     ENABLED (handleTrafficSignalUpdate /\ trafficState' = s))
    /\ [][/\ Count(OverrideLog.message)' # Count(OverrideLog.message)
               => /\ trafficState \in {"RED", "YELLOW"}
                  /\ trafficState' = "GREEN_CORRIDOR_ACTIVE"
                  /\ logs' = Append(logs, OverrideLog)
          /\ Count(BrakingLog.message)' # Count(BrakingLog.message)
               => /\ trafficState' = "RED"
                  /\ logs' = Append(logs, BrakingLog)]_vars

\* C12 witness: the override entry is the newest and the corridor is stored.
C12_Witness ==
    /\ logs # <<>>
    /\ Last(logs).message = "Override Engaged: Green Wave Active. Accelerating."
    /\ trafficState = "GREEN_CORRIDOR_ACTIVE"
    /\ status = "ENROUTE_PATIENT"


\* The text is a decimal numeral as a whole: an optional sign, digits with
\* an optional fraction, and nothing after them.
IsNumeric(text) ==
    LET t1 == IF text # <<>> /\ Head(text) \in {"+", "-"} THEN Tail(text) ELSE text
        int == DigitPrefix(t1)
        t2 == SubSeq(t1, Len(int) + 1, Len(t1))
        frac == IF t2 # <<>> /\ Head(t2) = "." THEN DigitPrefix(Tail(t2)) ELSE <<>>
    IN  /\ int # <<>> \/ frac # <<>>
        /\ t2 = <<>> \/ (Head(t2) = "." /\ Len(t2) = 1 + Len(frac))

\* A step of set-location with manual input: it ends the log with one of
\* the two entries only handleManualLocation writes.
ManualLocationStep ==
    /\ logs' # logs
    /\ Last(logs').message \in {"Manual coordinates set", "Invalid coordinates entered."}

\* C13: set-location with manual input where the latitude or the longitude
\* is not numeric is rejected: ambulancePos is unchanged, exactly one warning
\* entry is appended to the log, and no other field changes.
C13_NonNumericRejected ==
    [][ManualLocationStep /\ (~IsNumeric(manualLat) \/ ~IsNumeric(manualLng))
         => /\ ambulancePos' = ambulancePos
            /\ logs' = Append(logs, Log("Invalid coordinates entered.", "warning"))
            /\ UNCHANGED <<status, targetPos, trafficState, speed, distance, eta,
                           emergency>>]_vars


\* C14: every nonzero speed a position tick sets on the hospital leg lies in
\* 80..99 and every one it sets on the patient leg lies in 50..69, so the
\* former is strictly greater than the latter. (Only a position tick sets a
\* nonzero speed.)
C14_HospitalLegFaster ==
    [][speed' # speed /\ speed' # 0
         => /\ logs' = logs /\ trafficState' = trafficState /\ status' = status
            /\ status = "ENROUTE_HOSPITAL" => speed' \in 80..99
            /\ status = "ENROUTE_PATIENT" => speed' \in 50..69
            /\ \A slow \in 50..69 : status = "ENROUTE_HOSPITAL" => speed' > slow]_vars

C14_Witness == status = "ENROUTE_HOSPITAL" /\ speed = 99 /\ trafficState # "RED"


\* C15: the log is append-only. Every step of every handler and of every
\* continuation leaves the log it found as a prefix of the log it leaves:
\* no entry is removed, replaced or moved, also when the continuations of
\* two missions append one after the other.
C15_LogAppendOnly ==
    [][/\ Len(logs') >= Len(logs)
       /\ SubSeq(logs', 1, Len(logs)) = logs]_vars

\* Two missions were started before either analysis came back, and both
\* continuations have appended since.
C15_Witness ==
    /\ pendingAnalysis = 0
    /\ Len(logs) >= 7
    /\ logs[2].message = "Mission parameters uploaded. Analyzing route..."
    /\ logs[3].message = "Mission parameters uploaded. Analyzing route..."
    /\ Count("GREEN CORRIDOR PROTOCOL: ACTIVE. All signals preempted.") = 2


\* The edges of the mission's transition graph, abort apart.
StatusEdges ==
    {<<"IDLE", "CALCULATING">>,
     <<"CALCULATING", "ENROUTE_PATIENT">>,
     <<"ENROUTE_PATIENT", "AT_PATIENT">>,
     <<"AT_PATIENT", "ENROUTE_HOSPITAL">>,
     <<"ENROUTE_HOSPITAL", "COMPLETED">>,
     <<"COMPLETED", "IDLE">>}

\* C16: every change of status follows an edge of the transition graph or
\* is an abort to Idle, whatever the interleaving of intents, timers and
\* continuations; so Idle is never followed directly by EnroutePatient, and
\* Completed is reached only through AtPatient.
C16_StatusFollowsGraph ==
    [][status' # status
         => \/ <<status, status'>> \in StatusEdges
            \/ AbortStep /\ status' = "IDLE"]_vars

\* C17: the patient-secured confirmation is pending only in AtPatient, so
\* begin-transport is taken only from AtPatient and EnrouteHospital is
\* entered only from AtPatient.
C17_ConfirmationOnlyAtPatient ==
    showTransModal => status = "AT_PATIENT"

\* C19: the dashboard is shown only in Idle, and at most one start-mission
\* continuation is pending.
C19_DashboardOnlyWhenIdle ==
    /\ view = "DASHBOARD" => status = "IDLE"
    /\ pendingAnalysis <= 1


\* C18 (as stated): an active green corridor ends only by a Red event of the
\* simulator or by a transition of the mission (arrival, begin-transport); a
\* Yellow or Green event leaves it active.
C18_CorridorPersists ==
    [][trafficState = "GREEN_CORRIDOR_ACTIVE" /\ trafficState' # trafficState
         => \/ trafficState' = "RED" /\ logs' = Append(logs, BrakingLog)
            \/ status' # status
            \/ TransportStep]_vars

\* C18 (amended): an active green corridor ends by the next signal event
\* that carries another state, or by a transition of the mission. Red,
\* Yellow and Green events all replace it, and each can be received while
\* the corridor is active; only the Red event logs and stops the vehicle,
\* a Yellow or Green event changes the stored signal state and nothing else.
C18_CorridorUntilNextEvent ==
    /\ [](view = "MAP_NAVIGATION" /\ trafficState = "GREEN_CORRIDOR_ACTIVE"
            => \A s \in {"YELLOW", "GREEN"} :
                  ENABLED (handleTrafficSignalUpdate /\ trafficState' = s))
    /\ [][trafficState = "GREEN_CORRIDOR_ACTIVE" /\ trafficState' # trafficState
            => \/ /\ trafficState' = "RED"
                  /\ logs' = Append(logs, BrakingLog)
                  /\ speed' = 0
                  /\ status' = status
               \/ /\ trafficState' \in {"YELLOW", "GREEN"}
                  /\ UNCHANGED <<view, status, ambulancePos, targetPos, emergency, logs,
                                 speed, distance, eta, showTransModal, pendingAnalysis,
                                 resetTimers, locationVars>>
               \/ status' # status
               \/ TransportStep]_vars

\* On the patient leg, with the corridor set by the leg's start, a Yellow
\* event has replaced it (no Red event was ever received).
C18_Witness ==
    /\ status = "ENROUTE_PATIENT"
    /\ trafficState = "YELLOW"
    /\ Count(BrakingLog.message) = 0
    /\ Count("GREEN CORRIDOR PROTOCOL: ACTIVE. All signals preempted.") >= 1

============================================================================
